---- MODULE Spec2Model ----
(***************************************************************************)
(* Lexical front end of the ANTLR4 JavaScript runtime: InputStream (the    *)
(* character cursor), Lexer.nextToken and the mode stack, CommonToken and  *)
(* CommonTokenFactory, BufferedTokenStream and CommonTokenStream.          *)
(*                                                                         *)
(* The matching engine (this._interp) and the error listeners are external *)
(* collaborators: the engine is a nondeterministic choice of an outcome    *)
(* per invocation, the listener dispatch is taken to succeed.              *)
(***************************************************************************)
EXTENDS Integers, Sequences, FiniteSets, TLC

(* ---------------------------- bounds ----------------------------------- *)
MaxInput == 2
MaxMatch == 2
MaxStack == 2
MaxTokens == 3
MaxK == 3
MaxFetch == 3
MaxId == 2
MaxVal == 2
MaxBack == 2
MaxAll == 3
MaxBit == 2

(* ------------------------- program constants --------------------------- *)
TokenEOF == -1
INVALID_TYPE == 0
DEFAULT_CHANNEL == 0
HIDDEN_CHANNEL == 1
DEFAULT_MODE == 0
MORE == -2
SKIP == -3
fillValue == 1000

(* JavaScript null and undefined, encoded as integers outside every range  *)
(* the program uses, so that === against a number is a plain comparison.   *)
Null == -100
Undefined == -101

\* character codes of the input alphabet ("a", "b")
Symbols == {97, 98}
UserTypes == {1, 2}
Modes == {0, 1}
Channels == {DEFAULT_CHANNEL, HIDDEN_CHANNEL}

Min(a, b) == IF a < b THEN a ELSE b

(* A JavaScript string or null: nul marks null, str holds the characters.  *)
NullText == [nul |-> TRUE, str |-> <<>>]
Str(s) == [nul |-> FALSE, str |-> s]
\* the string "<EOF>" of tokens/constants.js
EOFText == Str(<<60, 69, 79, 70, 62>>)

(* ------------------------------ InputStream ---------------------------- *)
Inputs == UNION {[1..n -> Symbols] : n \in 0..MaxInput}

\* LA that does not translate a negative offset
InputLA_NoTranslate(d, idx, offset) ==
    IF offset = 0 THEN 0
    ELSE LET pos == idx + offset - 1
         IN IF pos < 0 \/ pos >= Len(d) THEN TokenEOF ELSE d[pos + 1]

\* InputStream.LA(offset): 0 for offset 0, Token.EOF outside [0,size)
InputLA(d, idx, offset) ==
    IF offset = 0 THEN 0
    ELSE LET off == IF offset < 0 THEN offset + 1 ELSE offset
             pos == idx + off - 1
         IN IF pos < 0 \/ pos >= Len(d) THEN TokenEOF ELSE d[pos + 1]

\* this._input.LA(1) === Token.EOF
AtEOF(d, idx) == InputLA(d, idx, 1) = TokenEOF

\* consume that advances whatever the index
InputConsume_NoCheck(d, idx) == [threw |-> FALSE, index |-> idx + 1]

\* InputStream.consume(): throws at end of input, else advances by one
InputConsume(d, idx) ==
    IF idx >= Len(d) THEN [threw |-> TRUE, index |-> idx]
    ELSE [threw |-> FALSE, index |-> idx + 1]

\* InputStream.seek(index)
InputSeek(d, idx, i) == IF i <= idx THEN i ELSE Min(i, Len(d))

\* InputStream.getText(start, stop) in raw-unit mode: strdata.slice(start, stop + 1)
InputGetText(d, start, stop) ==
    LET stp == IF stop >= Len(d) THEN Len(d) - 1 ELSE stop
    IN IF start >= Len(d) THEN <<>>
       ELSE LET lo == IF start < 0 THEN Len(d) + start ELSE start
                lo0 == IF lo < 0 THEN 0 ELSE lo
                hi == IF stp + 1 < 0 THEN Len(d) + stp + 1 ELSE stp + 1
                hi0 == IF hi < 0 THEN 0 ELSE hi
            IN IF hi0 <= lo0 THEN <<>> ELSE SubSeq(d, lo0 + 1, hi0)

(* ------------------------- Token / CommonToken ------------------------- *)
\* obj: "token" for an object, "null"/"undefined" for the JavaScript values
NullToken ==
    [obj |-> "null", source |-> "none", type |-> Null, channel |-> Null,
     start |-> Null, stop |-> Null, tokenIndex |-> Null, line |-> Null,
     column |-> Null, text |-> NullText]
UndefinedToken == [NullToken EXCEPT !.obj = "undefined"]

\* new CommonToken(source, type, channel, start, stop): the super() call
\* passes six arguments, so line, column and _text keep Token's null default
CommonTokenCtor(source, type, chan, start, stop) ==
    [obj |-> "token", source |-> source, type |-> type, channel |-> chan,
     start |-> start, stop |-> stop, tokenIndex |-> -1, line |-> Null,
     column |-> Null, text |-> NullText]

\* a text getter that slices without comparing the offsets with the size
TokenText_NoBounds(t, d) ==
    IF ~t.text.nul THEN t.text
    ELSE IF t.source = "none" THEN NullText
    ELSE Str(InputGetText(d, t.start, t.stop))

\* CommonToken.text getter
TokenText(t, d) ==
    IF ~t.text.nul THEN t.text
    ELSE IF t.source = "none" THEN NullText
    ELSE IF t.start < Len(d) /\ t.stop < Len(d)
         THEN Str(InputGetText(d, t.start, t.stop))
         ELSE EOFText

(* --------------------------- CommonTokenFactory ------------------------ *)
\* The value the constructor's third parameter receives from create(): the
\* text argument.  A non-null text never survives create (see below), so
\* only null is ever stored.
TextAsChannel(text) == IF text.nul THEN Null ELSE Undefined

\* CommonTokenFactory.create(source, type, text, channel, start, stop, line,
\* column): new CommonToken(source, type, text, channel, stop, ...), then
\* line and column are assigned; assigning token.text hits CommonToken's
\* getter-only accessor and throws a TypeError in module (strict) code.
FactoryCreate(copyText, source, type, text, chan, start, stop, ln, col) ==
    LET t0 == CommonTokenCtor(source, type, TextAsChannel(text), chan, stop)
        t1 == [t0 EXCEPT !.line = ln, !.column = col]
    IN IF ~text.nul THEN [threw |-> TRUE, tok |-> NullToken]
       ELSE IF copyText /\ source # "none" THEN [threw |-> TRUE, tok |-> NullToken]
       ELSE [threw |-> FALSE, tok |-> t1]

(* -------------------------------- state -------------------------------- *)
VARIABLES
    data,                 \* InputStream.data, fixed at construction
    inIndex,              \* InputStream._index
    line, column,         \* this._interp.line / this._interp.column
    token,                \* Lexer._token
    tokenStartCharIndex, tokenStartLine, tokenStartColumn,
    hitEOF,               \* Lexer._hitEOF
    channel,              \* Lexer._channel
    modeStack, mode,      \* Lexer._modeStack / Lexer._mode
    text,                 \* Lexer._text
    type,                 \* Lexer._type
    pc,                   \* "idle", or "match": nextToken is about to invoke the matcher
    op,                   \* the operation called last
    ret,                  \* what it returned or threw
    entryHitEOF,          \* history: _hitEOF when the current nextToken() was entered
    lastMatch,            \* history: the matcher invocation made last in this call
    eofReturns,           \* history: EOF tokens nextToken() returned since the last reset (counted up to 2)
    snaps,                \* history: <<mode, modeStack>> saved at every pushMode not yet popped
    tokens,               \* BufferedTokenStream.tokens
    index,                \* BufferedTokenStream.index
    fetchedEOF,           \* BufferedTokenStream.fetchedEOF
    streamChannel,        \* CommonTokenStream.channel (undefined on the base stream)
    tokenSource,          \* the tokens this.tokenSource will produce before EOF
    srcPos,               \* how many times tokenSource.nextToken() was called
    buffer,               \* what this.tokens holds: "array", or "token" / "undefined" once getTokens overwrote it
    tok,                  \* a CommonToken held by the caller of the token API
    setData,              \* Set.data: the bucket of every hash key present
    allTokens,            \* the local array `tokens` of Lexer.getAllTokens()
    bitsA, bitsB,         \* BitSet.data of two BitSets a and b: the keys present and the array length
    mapData               \* Map.data: the bucket of every hash key present

lexVars == <<data, inIndex, line, column, token, tokenStartCharIndex,
             tokenStartLine, tokenStartColumn, hitEOF, channel, modeStack,
             mode, text, type, pc, entryHitEOF, lastMatch, eofReturns, snaps>>
strVars == <<tokens, index, fetchedEOF, streamChannel, tokenSource, srcPos, buffer>>
bitVars == <<bitsA, bitsB>>
extraVars == <<allTokens, bitVars, mapData>>
utilVars == <<tok, setData, extraVars>>
vars == <<lexVars, strVars, utilVars, op, ret>>

\* the argument of an operation that takes none
NoArg == <<>>
Op(name, arg) == [name |-> name, arg |-> arg]
\* an object of the Set tests: id is its identity, val what equals() compares
NullObj == [id |-> Null, val |-> Null]
RetNone == [kind |-> "none", tok |-> NullToken, val |-> 0, err |-> "", txt |-> <<>>,
            toks |-> <<>>, obj |-> NullObj]
RetToken(t) == [RetNone EXCEPT !.kind = "token", !.tok = t]
RetValue(v) == [RetNone EXCEPT !.kind = "value", !.val = v]
RetText(x) == [RetNone EXCEPT !.kind = "text", !.txt = x]
RetError(e) == [RetNone EXCEPT !.kind = "error", !.err = e]
\* a returned null, a returned string or null, a returned array of tokens,
\* a returned object
RetNull == [RetNone EXCEPT !.kind = "null"]
RetStr(x) == IF x.nul THEN RetNull ELSE RetText(x.str)
RetToks(l) == [RetNone EXCEPT !.kind = "tokens", !.toks = l]
RetObj(x) == [RetNone EXCEPT !.kind = "object", !.obj = x]

\* Set.data of a new Set: no key
EmptyData == [k \in {} |-> <<>>]
\* the token and the Set of a specification that uses neither
\* BitSet.data of a new BitSet: the empty array
EmptyBits == [keys |-> {}, length |-> 0]
UtilAtRest ==
    /\ tok = NullToken
    /\ setData = EmptyData
    /\ allTokens = <<>>
    /\ bitsA = EmptyBits
    /\ bitsB = EmptyBits
    /\ mapData = EmptyData

NoMatch == [kind |-> "none", ttype |-> INVALID_TYPE, overridden |-> FALSE, at |-> 0,
            notified |-> FALSE]

(* ------------------------------- Lexer --------------------------------- *)
\* pushMode that pushes the mode being entered instead of the current one
PushModeOp_PushesNew(m, md, st) == [mode |-> m, stack |-> Append(st, m)]

\* Lexer.pushMode(m): push the current mode, then mode(m)
PushModeOp(m, md, st) == [mode |-> m, stack |-> Append(st, md)]

\* popMode that falls back to the default mode on an empty stack
PopModeOp_Silent(md, st) ==
    IF Len(st) = 0 THEN [threw |-> FALSE, mode |-> DEFAULT_MODE, stack |-> st]
    ELSE [threw |-> FALSE, mode |-> st[Len(st)], stack |-> SubSeq(st, 1, Len(st) - 1)]

\* Lexer.popMode(): throws on an empty stack, else mode(this._modeStack.pop())
PopModeOp(md, st) ==
    IF Len(st) = 0 THEN [threw |-> TRUE, mode |-> md, stack |-> st]
    ELSE [threw |-> FALSE, mode |-> st[Len(st)], stack |-> SubSeq(st, 1, Len(st) - 1)]

\* emitEOF that leaves the token type unset
EmitEOF_NoType(idx, ln, col) ==
    FactoryCreate(FALSE, "lexer", INVALID_TYPE, NullText, DEFAULT_CHANNEL,
                  idx, idx - 1, ln, col)

\* Lexer.emitEOF(): create(pair, EOF, null, DEFAULT_CHANNEL, index, index - 1, line, column)
EmitEOF(idx, ln, col) ==
    FactoryCreate(FALSE, "lexer", TokenEOF, NullText, DEFAULT_CHANNEL,
                  idx, idx - 1, ln, col)

\* Lexer.emit(): create(pair, _type, _text, _channel, start index, index - 1, start line, start column)
Emit(ty, tx, ch, startIdx, idx, startLn, startCol) ==
    FactoryCreate(FALSE, "lexer", ty, tx, ch, startIdx, idx - 1, startLn, startCol)

\* Lexer.recover(re), after the matcher left the cursor at idx:
\* at end of input this._input.consume() is called (and throws); elsewhere
\* only a LexerNoViableAltException consumes one symbol
Recover(d, idx, kind) ==
    IF AtEOF(d, idx) THEN InputConsume(d, idx)
    ELSE IF kind = "lnva" THEN [threw |-> FALSE, index |-> idx + 1]
    ELSE [threw |-> FALSE, index |-> idx]

\* What one invocation of this._interp.match(input, mode) may do at idx:
\* return a type after consuming len symbols and running one lexer action,
\* raise a LexerNoViableAltException ("lnva") or another
\* RecognitionException ("re") after consuming len symbols, or raise an
\* error that is no RecognitionException ("err").
ActNames(st) ==
    {"none", "skip", "more", "type", "mode", "channel", "text"}
      \cup (IF Len(st) < MaxStack THEN {"pushMode"} ELSE {})
      \cup {"popMode"}
Outcomes(d, idx, st) ==
    LET room == Len(d) - idx
        lens == IF room > 0 THEN 1..Min(MaxMatch, room) ELSE {0}
        types == IF room > 0 THEN {1, SKIP, MORE} ELSE {TokenEOF}
    IN [kind : {"ret"}, len : lens, ttype : types, act : ActNames(st), arg : {1}]
       \cup [kind : {"lnva", "re"}, len : 0..Min(MaxMatch, room), ttype : {SKIP},
             act : {"none"}, arg : {1}]
       \cup [kind : {"err"}, len : {0}, ttype : {SKIP}, act : {"none"}, arg : {1}]

\* The lexer fields after the action a matched rule ran: skip(), more(),
\* type = 2, mode(m), pushMode(m), popMode(), the channel or the text setter
ApplyAct(o, md, st, ch, tx) ==
    LET base == [type |-> INVALID_TYPE, mode |-> md, stack |-> st,
                 channel |-> ch, text |-> tx]
    IN CASE o.act = "skip" -> [base EXCEPT !.type = SKIP]
         [] o.act = "more" -> [base EXCEPT !.type = MORE]
         [] o.act = "type" -> [base EXCEPT !.type = 2]
         [] o.act = "mode" -> [base EXCEPT !.mode = o.arg]
         [] o.act = "pushMode" ->
              [base EXCEPT !.mode = PushModeOp(o.arg, md, st).mode,
                           !.stack = PushModeOp(o.arg, md, st).stack]
         [] o.act = "popMode" ->
              [base EXCEPT !.mode = PopModeOp(md, st).mode,
                           !.stack = PopModeOp(md, st).stack]
         [] o.act = "channel" -> [base EXCEPT !.channel = HIDDEN_CHANNEL]
         [] o.act = "text" -> [base EXCEPT !.text = Str(<<97>>)]
         [] OTHER -> base

\* history of pushMode/popMode
SnapsAfter(o, md, st, sn) ==
    CASE o.kind = "ret" /\ o.act = "pushMode" -> Append(sn, <<md, st>>)
      [] o.kind = "ret" /\ o.act = "popMode" /\ Len(st) > 0 -> SubSeq(sn, 1, Len(sn) - 1)
      [] OTHER -> sn

\* the head of the outer loop without the snapshot of the start index
OuterHead_KeepsStart(idx, col, hit, ch, tx) ==
    IF hit
    THEN /\ token' = EmitEOF(idx, line, col).tok
         /\ ret' = RetToken(EmitEOF(idx, line, col).tok)
         /\ pc' = "idle"
         /\ eofReturns' = Min(2, eofReturns + 1)
         /\ channel' = ch
         /\ text' = tx
         /\ UNCHANGED <<tokenStartCharIndex, tokenStartLine, tokenStartColumn>>
    ELSE /\ token' = NullToken
         /\ channel' = DEFAULT_CHANNEL
         /\ tokenStartColumn' = col
         /\ tokenStartLine' = line
         /\ text' = NullText
         /\ ret' = RetNone
         /\ pc' = "match"
         /\ UNCHANGED <<tokenStartCharIndex, eofReturns>>

\* Head of the outer loop of nextToken(): with _hitEOF set, emitEOF() and
\* return; otherwise clear _token, _channel, _text, snapshot the token start
\* and go on to invoke the matcher.
OuterHead(idx, col, hit, ch, tx) ==
    IF hit
    THEN /\ token' = EmitEOF(idx, line, col).tok
         /\ ret' = RetToken(EmitEOF(idx, line, col).tok)
         /\ pc' = "idle"
         /\ eofReturns' = Min(2, eofReturns + 1)
         /\ channel' = ch
         /\ text' = tx
         /\ UNCHANGED <<tokenStartCharIndex, tokenStartLine, tokenStartColumn>>
    ELSE /\ token' = NullToken
         /\ channel' = DEFAULT_CHANNEL
         /\ tokenStartCharIndex' = idx
         /\ tokenStartColumn' = col
         /\ tokenStartLine' = line
         /\ text' = NullText
         /\ ret' = RetNone
         /\ pc' = "match"
         /\ UNCHANGED eofReturns

\* nextToken() is called: up to the first invocation of the matcher
NextToken ==
    /\ pc = "idle"
    /\ op' = Op("nextToken", NoArg)
    /\ entryHitEOF' = hitEOF
    /\ lastMatch' = NoMatch
    /\ OuterHead(inIndex, column, hitEOF, channel, text)
    /\ UNCHANGED <<data, inIndex, line, column, hitEOF, modeStack, mode, type,
                   snaps, strVars, utilVars>>

\* a catch clause that takes every error for a RecognitionException
IsRecognitionException_Any(kind) == kind # "ret"

\* e instanceof RecognitionException, for what the matcher raised: when it
\* holds the catch clause of nextToken() calls notifyListeners(e) and
\* recover(e), otherwise it logs e and throws it again
IsRecognitionException(kind) == kind \in {"lnva", "re"}

\* One pass of the inner loop of nextToken(): invoke the matcher once, then
\* run on to the next invocation, to the return or to the throw.
MatchStep(o) ==
    \* a RecognitionException goes to notifyListeners(e), whose listener
    \* dispatch is external and returns, and then to recover(e)
    LET idx1 == inIndex + o.len
        col1 == column + o.len
        isRet == o.kind = "ret"
        isRec == IsRecognitionException(o.kind)
        rethrown == o.kind # "ret" /\ ~isRec
        a == ApplyAct(o, mode, modeStack, channel, text)
        rec == Recover(data, idx1, o.kind)
        idx2 == IF isRec THEN rec.index ELSE idx1
        col2 == col1 + (idx2 - idx1)
        ttype == IF isRet THEN o.ttype ELSE SKIP
        type1 == IF isRet THEN a.type ELSE INVALID_TYPE
        hit2 == hitEOF \/ AtEOF(data, idx2)
        type2 == IF type1 = INVALID_TYPE THEN ttype ELSE type1
        md2 == IF isRet THEN a.mode ELSE mode
        st2 == IF isRet THEN a.stack ELSE modeStack
        ch2 == IF isRet THEN a.channel ELSE channel
        tx2 == IF isRet THEN a.text ELSE text
        actThrew == isRet /\ o.act = "popMode" /\ PopModeOp(mode, modeStack).threw
        made == Emit(type2, tx2, ch2, tokenStartCharIndex, idx2,
                     tokenStartLine, tokenStartColumn)
    IN /\ lastMatch' = [kind |-> o.kind, ttype |-> ttype,
                        overridden |-> type1 # INVALID_TYPE, at |-> idx1,
                        notified |-> isRec]
       /\ UNCHANGED <<data, line, entryHitEOF, strVars, utilVars, op>>
       /\ IF rethrown \/ actThrew \/ (isRec /\ rec.threw)
          THEN \* the error leaves nextToken()
               /\ inIndex' = idx1
               /\ column' = col1
               /\ type' = INVALID_TYPE
               /\ pc' = "idle"
               /\ ret' = RetError(IF rethrown THEN "matcher error"
                                  ELSE IF actThrew THEN "Empty Stack"
                                  ELSE "cannot consume EOF")
               /\ UNCHANGED <<token, tokenStartCharIndex, tokenStartLine,
                              tokenStartColumn, hitEOF, channel, modeStack,
                              mode, text, eofReturns, snaps>>
          ELSE /\ inIndex' = idx2
               /\ column' = col2
               /\ hitEOF' = hit2
               /\ type' = type2
               /\ mode' = md2
               /\ modeStack' = st2
               /\ snaps' = SnapsAfter(o, mode, modeStack, snaps)
               /\ IF type2 = SKIP
                  THEN OuterHead(idx2, col2, hit2, ch2, tx2)
                  ELSE /\ channel' = ch2
                       /\ text' = tx2
                       /\ UNCHANGED <<tokenStartCharIndex, tokenStartLine,
                                      tokenStartColumn, eofReturns>>
                       /\ IF type2 = MORE
                          THEN \* break, then emit() and return
                               IF made.threw
                               THEN /\ pc' = "idle"
                                    /\ ret' = RetError("TypeError")
                                    /\ UNCHANGED token
                               ELSE /\ pc' = "idle"
                                    /\ token' = made.tok
                                    /\ ret' = RetToken(made.tok)
                          ELSE \* no break: the matcher is invoked again
                               /\ pc' = "match"
                               /\ ret' = RetNone
                               /\ UNCHANGED token

Match ==
    /\ pc = "match"
    /\ \E o \in Outcomes(data, inIndex, modeStack) : MatchStep(o)

\* pushMode(m) called by the user of the lexer
PushMode ==
    /\ pc = "idle"
    /\ Len(modeStack) < MaxStack
    /\ \E m \in Modes :
         /\ op' = Op("pushMode", m)
         /\ mode' = PushModeOp(m, mode, modeStack).mode
         /\ modeStack' = PushModeOp(m, mode, modeStack).stack
    /\ snaps' = Append(snaps, <<mode, modeStack>>)
    /\ ret' = RetNone
    /\ UNCHANGED <<data, inIndex, line, column, token, tokenStartCharIndex,
                   tokenStartLine, tokenStartColumn, hitEOF, channel, text,
                   type, pc, entryHitEOF, lastMatch, eofReturns, strVars, utilVars>>

\* popMode() called by the user of the lexer
PopMode ==
    /\ pc = "idle"
    /\ op' = Op("popMode", NoArg)
    /\ mode' = PopModeOp(mode, modeStack).mode
    /\ modeStack' = PopModeOp(mode, modeStack).stack
    /\ IF PopModeOp(mode, modeStack).threw
       THEN ret' = RetError("Empty Stack") /\ UNCHANGED snaps
       ELSE /\ ret' = RetValue(PopModeOp(mode, modeStack).mode)
            /\ snaps' = SubSeq(snaps, 1, Len(snaps) - 1)
    /\ UNCHANGED <<data, inIndex, line, column, token, tokenStartCharIndex,
                   tokenStartLine, tokenStartColumn, hitEOF, channel, text,
                   type, pc, entryHitEOF, lastMatch, eofReturns, strVars, utilVars>>

\* a reset() that leaves _hitEOF as it is
Reset_KeepsHitEOF ==
    /\ pc = "idle"
    /\ op' = Op("reset", NoArg)
    /\ ret' = RetNone
    /\ inIndex' = InputSeek(data, inIndex, 0)
    /\ token' = NullToken
    /\ type' = INVALID_TYPE
    /\ channel' = DEFAULT_CHANNEL
    /\ tokenStartCharIndex' = -1
    /\ tokenStartColumn' = -1
    /\ tokenStartLine' = -1
    /\ text' = NullText
    /\ mode' = DEFAULT_MODE
    /\ modeStack' = <<>>
    /\ line' = 1
    /\ column' = 0
    /\ eofReturns' = 0
    /\ snaps' = <<>>
    /\ lastMatch' = NoMatch
    /\ entryHitEOF' = FALSE
    /\ UNCHANGED <<data, hitEOF, pc, strVars, utilVars>>

\* reset(): the cursor back to 0, every lexer field back to its initial value
Reset ==
    /\ pc = "idle"
    /\ op' = Op("reset", NoArg)
    /\ ret' = RetNone
    /\ inIndex' = InputSeek(data, inIndex, 0)
    /\ token' = NullToken
    /\ type' = INVALID_TYPE
    /\ channel' = DEFAULT_CHANNEL
    /\ tokenStartCharIndex' = -1
    /\ tokenStartColumn' = -1
    /\ tokenStartLine' = -1
    /\ text' = NullText
    /\ hitEOF' = FALSE
    /\ mode' = DEFAULT_MODE
    /\ modeStack' = <<>>
    /\ line' = 1
    /\ column' = 0
    /\ eofReturns' = 0
    /\ snaps' = <<>>
    /\ lastMatch' = NoMatch
    /\ entryHitEOF' = FALSE
    /\ UNCHANGED <<data, pc, strVars, utilVars>>

InitLexer ==
    /\ data \in Inputs
    /\ inIndex = 0
    /\ line = 1
    /\ column = 0
    /\ token = NullToken
    /\ tokenStartCharIndex = -1
    /\ tokenStartLine = -1
    /\ tokenStartColumn = -1
    /\ hitEOF = FALSE
    /\ channel = DEFAULT_CHANNEL
    /\ modeStack = <<>>
    /\ mode = DEFAULT_MODE
    /\ text = NullText
    /\ type = Undefined
    /\ pc = "idle"
    /\ op = Op("new", NoArg)
    /\ ret = RetNone
    /\ entryHitEOF = FALSE
    /\ lastMatch = NoMatch
    /\ eofReturns = 0
    /\ snaps = <<>>
    /\ tokens = <<>>
    /\ index = -1
    /\ fetchedEOF = FALSE
    /\ streamChannel = Undefined
    /\ tokenSource = <<>>
    /\ srcPos = 0
    /\ buffer = "array"
    /\ UtilAtRest

NextLexer == NextToken \/ Match \/ PushMode \/ PopMode \/ Reset

SpecLexer == InitLexer /\ [][NextLexer]_vars

(* ------------------------ BufferedTokenStream -------------------------- *)
\* The stream fields an operation reads and writes, and the count of
\* tokenSource.nextToken() calls made so far.
StreamState == [tokens |-> tokens, index |-> index, fetchedEOF |-> fetchedEOF,
                srcPos |-> srcPos]

\* What a stream method hands back: the stream state it leaves, and its
\* value (a number, a token or a text) or the error it threw.
Out(S, r) == [s |-> S, r |-> r]
Threw(o) == o.r.kind = "error"

\* this.tokens[i] of a JavaScript array: undefined outside 0..length-1
At(tk, i) == IF i >= 0 /\ i < Len(tk) THEN tk[i + 1] ELSE UndefinedToken

\* tokenSource.nextToken(): the next token of the source, its EOF token
\* again and again once the end is reached
SourceNextToken(n) == tokenSource[Min(n + 1, Len(tokenSource))]

\* The one element of a singleton set.  {e : x \in {v}} names the value of
\* v as x inside e, the way a local constant of the code holds a result.
The(S) == CHOOSE r \in S : TRUE

\* a fetch loop that appends the token without assigning its tokenIndex
RECURSIVE FetchLoop_NoIndex(_, _, _)
FetchLoop_NoIndex(S, i, n) ==
    IF i >= n THEN Out(S, RetValue(n))
    ELSE The({
           The({ IF t.type = TokenEOF
                 THEN Out([S1 EXCEPT !.fetchedEOF = TRUE], RetValue(i + 1))
                 ELSE FetchLoop_NoIndex(S1, i + 1, n)
                 : S1 \in {[S EXCEPT !.tokens = Append(S.tokens, t),
                                     !.srcPos = S.srcPos + 1]} })
           : t \in {SourceNextToken(S.srcPos)} })

\* the loop of fetch(elementsToBuffer), from iteration i
RECURSIVE FetchLoop(_, _, _)
FetchLoop(S, i, n) ==
    IF i >= n THEN Out(S, RetValue(n))
    ELSE The({
           The({ IF t.type = TokenEOF
                 THEN Out([S1 EXCEPT !.fetchedEOF = TRUE], RetValue(i + 1))
                 ELSE FetchLoop(S1, i + 1, n)
                 : S1 \in {[S EXCEPT !.tokens = Append(S.tokens, t),
                                     !.srcPos = S.srcPos + 1]} })
           : t \in {[SourceNextToken(S.srcPos) EXCEPT !.tokenIndex = Len(S.tokens)]} })

\* fetch without the fetchedEOF guard
Fetch_NoGuard(S, n) == FetchLoop(S, 0, n)

\* fetch(elementsToBuffer)
Fetch(S, n) == IF S.fetchedEOF THEN Out(S, RetValue(0)) ELSE FetchLoop(S, 0, n)

\* sync that wants more tokens than it asked for
Sync_Strict(S, i) ==
    LET elementsNeeded == i - Len(S.tokens) + 1
    IN IF elementsNeeded > 0
       THEN The({ Out(f.s, RetValue(IF f.r.val > elementsNeeded THEN 1 ELSE 0))
                  : f \in {Fetch(S, elementsNeeded)} })
       ELSE Out(S, RetValue(1))

\* sync(index): val is 1 for true, 0 for false
Sync(S, i) ==
    LET elementsNeeded == i - Len(S.tokens) + 1
    IN IF elementsNeeded > 0
       THEN The({ Out(f.s, RetValue(IF f.r.val >= elementsNeeded THEN 1 ELSE 0))
                  : f \in {Fetch(S, elementsNeeded)} })
       ELSE Out(S, RetValue(1))

\* the while loop of nextTokenOnChannel, standing on tokens[i]; the loop
\* compares with this.channel, whatever channel the caller asked for
RECURSIVE NextOnChannelLoop(_, _)
NextOnChannelLoop(S, i) ==
    The({ IF t.obj # "token" THEN Out(S, RetError("TypeError"))
          ELSE IF t.channel = streamChannel THEN Out(S, RetValue(i))
          ELSE IF t.type = TokenEOF THEN Out(S, RetValue(-1))
          ELSE The({ NextOnChannelLoop(S2, i + 1) : S2 \in {Sync(S, i + 1).s} })
          : t \in {At(S.tokens, i)} })

\* nextTokenOnChannel that does not walk over off-channel tokens
NextTokenOnChannel_NoSkip(S, i, ch) ==
    The({ IF i >= Len(S1.tokens) THEN Out(S1, RetValue(-1)) ELSE Out(S1, RetValue(i))
          : S1 \in {Sync(S, i).s} })

\* nextTokenOnChannel(index, channel)
NextTokenOnChannel(S, i, ch) ==
    The({ IF i >= Len(S1.tokens) THEN Out(S1, RetValue(-1))
          ELSE NextOnChannelLoop(S1, i)
          : S1 \in {Sync(S, i).s} })

\* previousTokenOnChannel that takes the token at index whatever its channel
PreviousTokenOnChannel_NoSkip(S, i, ch) ==
    IF i >= 0 /\ At(S.tokens, i).obj # "token" THEN RetError("TypeError")
    ELSE RetValue(i)

\* previousTokenOnChannel(index, channel)
RECURSIVE PreviousTokenOnChannel(_, _, _)
PreviousTokenOnChannel(S, i, ch) ==
    IF i >= 0 /\ At(S.tokens, i).obj # "token" THEN RetError("TypeError")
    ELSE IF i >= 0 /\ At(S.tokens, i).channel # ch
         THEN PreviousTokenOnChannel(S, i - 1, ch)
         ELSE RetValue(i)

Filtered == streamChannel # Undefined

\* adjustSeekIndex(index): the identity on BufferedTokenStream,
\* nextTokenOnChannel(index, this.channel) on CommonTokenStream
AdjustSeekIndex(S, i) ==
    IF Filtered THEN NextTokenOnChannel(S, i, streamChannel) ELSE Out(S, RetValue(i))

\* lazyInit(), with setup(): sync(0), then index = adjustSeekIndex(0)
LazyInit(S) ==
    IF S.index = -1
    THEN The({ IF Threw(a) THEN a ELSE Out([a.s EXCEPT !.index = a.r.val], RetNone)
               : a \in {AdjustSeekIndex(Sync(S, 0).s, 0)} })
    ELSE Out(S, RetNone)

\* seek(index)
Seek(S, i) ==
    The({ IF Threw(l) THEN l
          ELSE The({ IF Threw(a) THEN a
                     ELSE Out([a.s EXCEPT !.index = a.r.val], RetNone)
                     : a \in {AdjustSeekIndex(l.s, i)} })
          : l \in {LazyInit(S)} })

\* a get(index) that leaves the cursor at index
Get_MovesCursor(S, i) ==
    The({ IF Threw(l) THEN l
          ELSE Out([l.s EXCEPT !.index = i], RetToken(At(l.s.tokens, i)))
          : l \in {LazyInit(S)} })

\* get(index)
Get(S, i) ==
    The({ IF Threw(l) THEN l ELSE Out(l.s, RetToken(At(l.s.tokens, i)))
          : l \in {LazyInit(S)} })

\* BufferedTokenStream.LB(k)
BaseLB(S, k) ==
    IF S.index - k < 0 THEN Out(S, RetToken(NullToken))
    ELSE Out(S, RetToken(At(S.tokens, S.index - k)))

\* LT that reads tokens[i] without the clamp to the last token
BaseLT_NoClamp(S, k) ==
    The({ IF Threw(l) THEN l
          ELSE IF k = 0 THEN BaseLB(l.s, -k)
          ELSE LET i == l.s.index + k - 1
               IN The({ Out(S1, RetToken(At(S1.tokens, i)))
                        : S1 \in {Sync(l.s, i).s} })
          : l \in {LazyInit(S)} })

\* BufferedTokenStream.LT(k)
BaseLT(S, k) ==
    The({ IF Threw(l) THEN l
          ELSE IF k = 0 THEN BaseLB(l.s, -k)
          ELSE LET i == l.s.index + k - 1
               IN The({ IF i >= Len(S1.tokens)
                        THEN Out(S1, RetToken(At(S1.tokens, Len(S1.tokens) - 1)))
                        ELSE Out(S1, RetToken(At(S1.tokens, i)))
                        : S1 \in {Sync(l.s, i).s} })
          : l \in {LazyInit(S)} })

\* the while loop of CommonTokenStream.LB(k)
RECURSIVE FilteredLBLoop(_, _, _, _)
FilteredLBLoop(S, i, n, k) ==
    IF n > k THEN RetValue(i)
    ELSE The({ IF pv.kind = "error" THEN pv ELSE FilteredLBLoop(S, pv.val, n + 1, k)
               : pv \in {PreviousTokenOnChannel(S, i - 1, streamChannel)} })

\* CommonTokenStream.LB(k)
FilteredLB(S, k) ==
    IF k = 0 \/ S.index - k < 0 THEN Out(S, RetToken(NullToken))
    ELSE The({ IF w.kind = "error" THEN Out(S, w)
               ELSE IF w.val < 0 THEN Out(S, RetToken(NullToken))
               ELSE Out(S, RetToken(At(S.tokens, w.val)))
               : w \in {FilteredLBLoop(S, S.index, 1, k)} })

\* the while loop of CommonTokenStream.LT(k)
RECURSIVE FilteredLTLoop(_, _, _, _)
FilteredLTLoop(S, i, n, k) ==
    IF n >= k THEN Out(S, RetValue(i))
    ELSE The({ IF y.r.val = 1
               THEN The({ IF Threw(nx) THEN nx
                          ELSE FilteredLTLoop(nx.s, nx.r.val, n + 1, k)
                          : nx \in {NextTokenOnChannel(y.s, i + 1, streamChannel)} })
               ELSE FilteredLTLoop(y.s, i, n + 1, k)
               : y \in {Sync(S, i + 1)} })

\* CommonTokenStream.LT(k)
FilteredLT(S, k) ==
    The({ IF Threw(l) THEN l
          ELSE IF k = 0 THEN Out(l.s, RetToken(NullToken))
          ELSE IF k < 0 THEN FilteredLB(l.s, -k)
          ELSE The({ IF Threw(w) THEN w
                     ELSE Out(w.s, RetToken(At(w.s.tokens, w.r.val)))
                     : w \in {FilteredLTLoop(l.s, l.s.index, 1, k)} })
          : l \in {LazyInit(S)} })

LT(S, k) == IF Filtered THEN FilteredLT(S, k) ELSE BaseLT(S, k)
LB(S, k) == IF Filtered THEN FilteredLB(S, k) ELSE BaseLB(S, k)

\* LA(i): LT(i).type, a TypeError when LT gave null or undefined
LA(S, k) ==
    The({ IF Threw(t) THEN t
          ELSE IF t.r.tok.obj # "token" THEN Out(t.s, RetError("TypeError"))
          ELSE Out(t.s, RetValue(t.r.tok.type))
          : t \in {LT(S, k)} })

\* the end of consume() without the sync test: the cursor always advances
ConsumeAdvance_NoSync(S) ==
    The({ The({ IF Threw(a) THEN a
                ELSE Out([a.s EXCEPT !.index = a.r.val], RetNone)
                : a \in {AdjustSeekIndex(y.s, y.s.index + 1)} })
          : y \in {Sync(S, S.index + 1)} })

\* the end of consume(): if (this.sync(index + 1)) index = adjustSeekIndex(index + 1)
ConsumeAdvance(S) ==
    The({ IF y.r.val = 1
          THEN The({ IF Threw(a) THEN a
                     ELSE Out([a.s EXCEPT !.index = a.r.val], RetNone)
                     : a \in {AdjustSeekIndex(y.s, y.s.index + 1)} })
          ELSE Out(y.s, RetNone)
          : y \in {Sync(S, S.index + 1)} })

\* consume whose EOF check is skipped for every resident index
Consume_SkipsCheck(S) ==
    LET skipEOFCheck == S.index >= 0 /\ S.index < Len(S.tokens)
    IN IF skipEOFCheck THEN ConsumeAdvance(S)
       ELSE The({ IF Threw(la) THEN la
                  ELSE IF la.r.val = TokenEOF
                       THEN Out(la.s, RetError("cannot consume EOF"))
                  ELSE ConsumeAdvance(la.s)
                  : la \in {LA(S, 1)} })

\* consume(): isEOF is a boolean, so isEOF - 1 is 0 (falsy) when it is true
\* and -1 (truthy) when it is false
Consume(S) ==
    LET isEOF == S.index < Len(S.tokens)
        skipEOFCheck == IF S.index >= 0
                        THEN (IF S.fetchedEOF THEN ~isEOF ELSE isEOF)
                        ELSE FALSE
    IN IF skipEOFCheck THEN ConsumeAdvance(S)
       ELSE The({ IF Threw(la) THEN la
                  ELSE IF la.r.val = TokenEOF
                       THEN Out(la.s, RetError("cannot consume EOF"))
                  ELSE ConsumeAdvance(la.s)
                  : la \in {LA(S, 1)} })

\* the loop of fill()
RECURSIVE FillLoop(_)
FillLoop(S) ==
    The({ IF f.r.val = fillValue THEN FillLoop(f.s) ELSE Out(f.s, RetNone)
          : f \in {Fetch(S, fillValue)} })

\* fill()
Fill(S) ==
    The({ IF Threw(l) THEN l ELSE FillLoop(l.s) : l \in {LazyInit(S)} })

\* the characters of "null", what += appends for a null token text
NullChars == <<110, 117, 108, 108>>

\* a getText loop that leaves out the tokens off the stream's channel
RECURSIVE GetTextLoop_OnChannel(_, _, _, _)
GetTextLoop_OnChannel(S, i, stop, acc) ==
    IF i >= stop + 1 THEN Out(S, RetText(acc))
    ELSE The({ IF t.obj # "token" THEN Out(S, RetError("TypeError"))
               ELSE IF t.type = TokenEOF THEN Out(S, RetText(acc))
               ELSE The({ GetTextLoop_OnChannel(S, i + 1, stop, acc2)
                          : acc2 \in {IF Filtered /\ t.channel # streamChannel
                                      THEN acc
                                      ELSE acc \o (IF TokenText(t, data).nul
                                                   THEN NullChars
                                                   ELSE TokenText(t, data).str)} })
               : t \in {At(S.tokens, i)} })

\* the for loop of getText, from token i up to token stop
RECURSIVE GetTextLoop(_, _, _, _)
GetTextLoop(S, i, stop, acc) ==
    IF i >= stop + 1 THEN Out(S, RetText(acc))
    ELSE The({ IF t.obj # "token" THEN Out(S, RetError("TypeError"))
               ELSE IF t.type = TokenEOF THEN Out(S, RetText(acc))
               ELSE The({ GetTextLoop(S, i + 1, stop, acc2)
                          : acc2 \in {acc \o (IF TokenText(t, data).nul
                                              THEN NullChars
                                              ELSE TokenText(t, data).str)} })
               : t \in {At(S.tokens, i)} })

\* the body of getText(interval) once the buffer is filled; an interval is
\* <<start, stop>>, << >> when absent
GetTextOf(S, interval) ==
    LET n == Len(S.tokens)
        start == IF interval = <<>> THEN 0 ELSE interval[1]
        stop0 == IF interval = <<>> THEN n - 1 ELSE interval[2]
        stop == IF stop0 >= n THEN n - 1 ELSE stop0
    IN IF start < 0 \/ stop0 < 0 THEN Out(S, RetText(<<>>))
       ELSE GetTextLoop(S, start, stop, <<>>)

\* getText(interval): lazyInit(), fill(), then the text of the interval
GetText(S, interval) ==
    The({ IF Threw(l) THEN l
          ELSE The({ IF Threw(f) THEN f ELSE GetTextOf(f.s, interval)
                     : f \in {Fill(l.s)} })
          : l \in {LazyInit(S)} })

\* the for loop of filterForChannel, from token i up to token right
RECURSIVE FilterLoop(_, _, _, _, _)
FilterLoop(S, i, right, ch, hidden) ==
    IF i >= right + 1 THEN hidden
    ELSE The({ IF t.obj # "token" THEN <<UndefinedToken>>
               ELSE IF ch = -1
                    THEN FilterLoop(S, i + 1, right, ch,
                                    IF t.channel # DEFAULT_CHANNEL
                                    THEN Append(hidden, t) ELSE hidden)
                    ELSE FilterLoop(S, i + 1, right, ch,
                                    IF t.channel = ch
                                    THEN Append(hidden, t) ELSE hidden)
               : t \in {At(S.tokens, i)} })

\* filterForChannel(left, right, channel): null for an empty result, a
\* TypeError when the loop reads a token that is not there
FilterForChannel(S, left, right, ch) ==
    The({ IF hidden = <<UndefinedToken>> THEN Out(S, RetError("TypeError"))
          ELSE IF Len(hidden) = 0 THEN Out(S, RetNull)
          ELSE Out(S, RetToks(hidden))
          : hidden \in {FilterLoop(S, left, right, ch, <<>>)} })

\* getHiddenTokensToLeft(tokenIndex, channel): !prevOnChannel is true for
\* 0 and false for -1
HiddenTokensToLeft(S, tokenIndex, chan) ==
    LET ch == IF chan = Null THEN -1 ELSE chan
    IN The({ IF Threw(l) THEN l
             ELSE IF tokenIndex < 0 \/ tokenIndex >= Len(l.s.tokens)
                  THEN Out(l.s, RetError("not in range"))
             ELSE The({ IF prevOnChannel.kind = "error" THEN Out(l.s, prevOnChannel)
                        ELSE IF prevOnChannel.val = 0 THEN Out(l.s, RetNull)
                        ELSE FilterForChannel(l.s, prevOnChannel.val + 1,
                                              tokenIndex - 1, ch)
                        : prevOnChannel \in
                            {PreviousTokenOnChannel(l.s, tokenIndex - 1, DEFAULT_CHANNEL)} })
             : l \in {LazyInit(S)} })

\* getHiddenTokensToRigh(tokenIndex, channel)
HiddenTokensToRight(S, tokenIndex, chan) ==
    LET ch == IF chan = Null THEN -1 ELSE chan
    IN The({ IF Threw(l) THEN l
             ELSE IF tokenIndex < 0 \/ tokenIndex >= Len(l.s.tokens)
                  THEN Out(l.s, RetError("not in range"))
             ELSE The({ IF Threw(nextOnChannel) THEN nextOnChannel
                        ELSE FilterForChannel(
                               nextOnChannel.s, tokenIndex + 1,
                               IF nextOnChannel.r.val = -1
                               THEN Len(nextOnChannel.s.tokens) - 1
                               ELSE nextOnChannel.r.val,
                               ch)
                        : nextOnChannel \in
                            {NextTokenOnChannel(l.s, tokenIndex + 1, DEFAULT_CHANNEL)} })
             : l \in {LazyInit(S)} })

\* getTokens(start, stop) with no types: the loop assigns this.tokens =
\* this.tokens[i].  The first pass leaves a token in this.tokens; a second
\* pass reads property i of that token, which is undefined, and the read of
\* its type throws.  kind is what this.tokens holds afterwards.
GetTokens(S, start, stop) ==
    IF start < 0 \/ stop < 0 THEN [o |-> Out(S, RetNull), kind |-> "array"]
    ELSE The({ IF Threw(l) THEN [o |-> l, kind |-> "array"]
               ELSE LET stop1 == IF stop >= Len(l.s.tokens)
                                 THEN Len(l.s.tokens) - 1 ELSE stop
                        first == At(l.s.tokens, start)
                        gone == [l.s EXCEPT !.tokens = <<>>]
                    IN IF start >= stop1
                       THEN [o |-> Out(l.s, RetToks(<<>>)), kind |-> "array"]
                       ELSE IF first.obj # "token"
                            THEN [o |-> Out(gone, RetError("TypeError")),
                                  kind |-> "undefined"]
                       ELSE IF first.type = TokenEOF
                            THEN [o |-> Out(gone, RetToks(<<>>)), kind |-> "token"]
                       ELSE IF start + 1 < stop1
                            THEN [o |-> Out(gone, RetError("TypeError")),
                                  kind |-> "undefined"]
                       ELSE [o |-> Out(gone, RetToks(<<first>>)), kind |-> "token"]
               : l \in {LazyInit(S)} })

(* Stream operations as steps.  An operation is followed while this.tokens *)
(* is the token array; what the stream does once getTokens has overwritten *)
(* this.tokens is not followed.                                            *)
Apply(name, arg, o) ==
    /\ buffer = "array"
    /\ op' = Op(name, arg)
    /\ ret' = o.r
    /\ tokens' = o.s.tokens
    /\ index' = o.s.index
    /\ fetchedEOF' = o.s.fetchedEOF
    /\ srcPos' = o.s.srcPos
    /\ UNCHANGED <<lexVars, streamChannel, tokenSource, buffer, utilVars>>

Indexes == 0..(MaxTokens + 1)
Intervals == {<<>>} \cup {<<a, b>> : a \in 0..MaxTokens, b \in 0..(MaxTokens + 1)}

StreamFetch == \E n \in 0..MaxFetch : Apply("fetch", n, Fetch(StreamState, n))
StreamSync == \E i \in Indexes : Apply("sync", i, Sync(StreamState, i))
StreamLT == \E k \in (0 - MaxK)..MaxK : Apply("LT", k, LT(StreamState, k))
StreamLA == \E k \in (0 - MaxK)..MaxK : Apply("LA", k, LA(StreamState, k))
StreamLB == \E k \in 0..MaxK : Apply("LB", k, LB(StreamState, k))
StreamGet == \E i \in Indexes : Apply("get", i, Get(StreamState, i))
StreamSeek == \E i \in Indexes : Apply("seek", i, Seek(StreamState, i))
StreamConsume == Apply("consume", NoArg, Consume(StreamState))
StreamFill == Apply("fill", NoArg, Fill(StreamState))
StreamGetText == \E v \in Intervals : Apply("getText", v, GetText(StreamState, v))

StreamHiddenLeft ==
    \E i \in 0..MaxTokens, ch \in {Null, -1, HIDDEN_CHANNEL} :
        Apply("getHiddenTokensToLeft", <<i, ch>>, HiddenTokensToLeft(StreamState, i, ch))

StreamHiddenRight ==
    \E i \in 0..MaxTokens, ch \in {Null, -1, HIDDEN_CHANNEL} :
        Apply("getHiddenTokensToRight", <<i, ch>>, HiddenTokensToRight(StreamState, i, ch))

NextStream ==
    \/ StreamFetch \/ StreamSync \/ StreamLT \/ StreamLA \/ StreamLB
    \/ StreamGet \/ StreamSeek \/ StreamConsume \/ StreamFill \/ StreamGetText
    \/ StreamHiddenLeft \/ StreamHiddenRight

\* the lexer fields of a stream specification: a lexer at rest on data d
LexerAtRest(d) ==
    /\ data = d
    /\ inIndex = Len(d)
    /\ line = 1
    /\ column = Len(d)
    /\ token = NullToken
    /\ tokenStartCharIndex = -1
    /\ tokenStartLine = -1
    /\ tokenStartColumn = -1
    /\ hitEOF = FALSE
    /\ channel = DEFAULT_CHANNEL
    /\ modeStack = <<>>
    /\ mode = DEFAULT_MODE
    /\ text = NullText
    /\ type = Undefined
    /\ pc = "idle"
    /\ entryHitEOF = FALSE
    /\ lastMatch = NoMatch
    /\ eofReturns = 0
    /\ snaps = <<>>

StreamAtStart ==
    /\ tokens = <<>>
    /\ index = -1
    /\ fetchedEOF = FALSE
    /\ srcPos = 0
    /\ buffer = "array"
    /\ op = Op("new", NoArg)
    /\ ret = RetNone
    /\ UtilAtRest

\* The input of a token source that puts "a" symbols on the default channel
\* and "b" symbols on the hidden channel.
DataOf(chans) ==
    [i \in 1..Len(chans) |-> IF chans[i] = HIDDEN_CHANNEL THEN 98 ELSE 97]

\* A token source that hands out one token per input symbol, each on a
\* channel of its own choosing and built by the CommonToken constructor,
\* and then the EOF token on the default channel.
SourceOf(d, chans) ==
    [i \in 1..(Len(d) + 1) |->
        IF i <= Len(d)
        THEN CommonTokenCtor("lexer", 1, chans[i], i - 1, i - 1)
        ELSE CommonTokenCtor("lexer", TokenEOF, DEFAULT_CHANNEL, Len(d), Len(d) - 1)]

InitStream ==
    /\ \E n \in 0..MaxTokens :
         \E chans \in [1..n -> Channels] :
            /\ LexerAtRest(DataOf(chans))
            /\ tokenSource = SourceOf(DataOf(chans), chans)
    /\ streamChannel \in {Undefined} \cup Channels
    /\ StreamAtStart

SpecStream == InitStream /\ [][NextStream]_vars

StreamGetTokens ==
    /\ buffer = "array"
    /\ \E a \in 0..MaxTokens, b \in 0..(MaxTokens + 1) :
         LET g == GetTokens(StreamState, a, b)
         IN /\ op' = Op("getTokens", <<a, b>>)
            /\ ret' = g.o.r
            /\ tokens' = g.o.s.tokens
            /\ index' = g.o.s.index
            /\ fetchedEOF' = g.o.s.fetchedEOF
            /\ srcPos' = g.o.s.srcPos
            /\ buffer' = g.kind
    /\ UNCHANGED <<lexVars, streamChannel, tokenSource, utilVars>>

\* the stream with getTokens among its operations
NextBuffer == NextStream \/ StreamGetTokens

SpecBuffer == InitStream /\ [][NextBuffer]_vars

\* The tokens Lexer.emit() makes for the segments of d that end at the cut
\* positions, and the token emitEOF() makes at the end.
RECURSIVE EmittedFrom(_, _, _)
EmittedFrom(d, cuts, start) ==
    IF start >= Len(d) THEN <<EmitEOF(Len(d), 1, Len(d)).tok>>
    ELSE LET stop == CHOOSE c \in cuts \cup {Len(d)} :
                         c > start /\ \A c2 \in cuts \cup {Len(d)} : c2 > start => c <= c2
         IN <<Emit(MORE, NullText, DEFAULT_CHANNEL, start, stop, 1, start).tok>>
              \o EmittedFrom(d, cuts, stop)

InitPipe ==
    /\ \E d \in Inputs : \E cuts \in SUBSET (1..(Len(d) - 1)) :
            /\ LexerAtRest(d)
            /\ tokenSource = EmittedFrom(d, cuts, 0)
    /\ streamChannel \in {Undefined, DEFAULT_CHANNEL}
    /\ StreamAtStart

SpecPipe == InitPipe /\ [][NextStream]_vars

(* ------------------------- properties: Lexer --------------------------- *)
\* C1: once nextToken() has returned an EOF token (and reset() has not been
\* called since), every nextToken() call returns at once, with a token of
\* type EOF, and leaves the character cursor where it was.
C1_EOFIsTerminal ==
    [][(eofReturns > 0 /\ pc = "idle" /\ op'.name = "nextToken")
         => (/\ pc' = "idle"
             /\ ret'.kind = "token"
             /\ ret'.tok.type = TokenEOF
             /\ inIndex' = inIndex)]_vars

\* an EOF token was returned a second time
C1_Witness ==
    /\ eofReturns = 2
    /\ op.name = "nextToken"
    /\ ret.kind = "token"
    /\ ret.tok.type = TokenEOF

\* C3: when the matcher has matched a non-empty token of a user type and the
\* cursor reached the end of input during that match, the call has set hitEOF and
\* has returned that token, not EOF.
C3_RealTokenBeforeEOF ==
    (lastMatch.kind = "ret" /\ type \in UserTypes
       /\ tokenStartCharIndex < inIndex /\ AtEOF(data, inIndex))
      => (/\ hitEOF
          /\ pc = "idle"
          /\ ret.kind = "token"
          /\ ret.tok.type = type)

\* C4: when the matcher returned a concrete type (neither SKIP nor MORE) and
\* no action set the type, that invocation was the last of the call and
\* nextToken() has returned a token of exactly that type.
C4_ConcreteTypeEndsLoop ==
    (lastMatch.kind = "ret" /\ ~lastMatch.overridden
       /\ lastMatch.ttype \notin {SKIP, MORE})
      => (/\ pc = "idle"
          /\ ret.kind = "token"
          /\ ret.tok.type = lastMatch.ttype)

\* C5: a nextToken() call in which the matcher raised a RecognitionException
\* never ends by throwing: the failure is handled inside the call.
C5_RecognitionErrorHandled ==
    ~(/\ op.name = "nextToken"
      /\ pc = "idle"
      /\ lastMatch.kind \in {"lnva", "re"}
      /\ ret.kind = "error")

\* C7: every successful popMode() restores the mode and the mode stack that
\* were current just before the matching pushMode(), and returns that mode.
C7_PushPopRestores ==
    [][(Len(snaps') = Len(snaps) - 1 /\ op'.name # "reset")
         => (/\ <<mode', modeStack'>> = snaps[Len(snaps)]
             /\ (pc = "idle" => ret' = RetValue(snaps[Len(snaps)][1])))]_vars

\* a popMode() inside a nesting of two pushes brought back a non-default mode
C7_Witness ==
    /\ op.name = "popMode"
    /\ ret.kind = "value"
    /\ ret.val # DEFAULT_MODE
    /\ Len(modeStack) = 1
    /\ mode = ret.val

\* C8: popMode() on an empty mode stack throws to the caller and changes
\* neither the mode nor the mode stack.
C8_PopEmptyThrows ==
    [][(pc = "idle" /\ op'.name = "popMode" /\ modeStack = <<>>)
         => (/\ ret'.kind = "error"
             /\ ret'.err = "Empty Stack"
             /\ mode' = mode
             /\ modeStack' = modeStack)]_vars

\* popMode() failed on an empty stack while a non-default mode was current
C8_Witness ==
    /\ op.name = "popMode"
    /\ ret.kind = "error"
    /\ modeStack = <<>>
    /\ mode # DEFAULT_MODE

(* ---------------------- properties: token streams ---------------------- *)
EOFCount(tk) == Cardinality({i \in 1..Len(tk) : tk[i].type = TokenEOF})

\* C2: the buffer never holds more than one EOF token; fetchedEOF is true
\* exactly when it holds one, which is then the last element; and a fetch
\* made while fetchedEOF is true returns 0, does not call the token source
\* and appends nothing.
C2_SingleEOF ==
    /\ [](/\ EOFCount(tokens) <= 1
          /\ fetchedEOF <=> (EOFCount(tokens) = 1)
          /\ fetchedEOF => tokens[Len(tokens)].type = TokenEOF)
    /\ [][(fetchedEOF /\ op'.name = "fetch")
            => (ret' = RetValue(0) /\ srcPos' = srcPos /\ tokens' = tokens)]_vars

\* a fetch of at least one token returned 0 because EOF was resident
C2_Witness ==
    /\ fetchedEOF
    /\ op.name = "fetch"
    /\ op.arg > 0
    /\ ret = RetValue(0)
    /\ srcPos = Len(tokens)

\* C6: on the base stream, consume() with the cursor on the resident EOF
\* token throws and changes neither cursor nor buffer; with the cursor on
\* any other resident token it advances the cursor by exactly one.
C6_ConsumeStopsAtEOF ==
    [][(~Filtered /\ op'.name = "consume" /\ index >= 0 /\ index < Len(tokens))
         => IF tokens[index + 1].type = TokenEOF
            THEN /\ ret'.kind = "error"
                 /\ index' = index
                 /\ tokens' = tokens
            ELSE /\ ret'.kind # "error"
                 /\ index' = index + 1]_vars

\* consume() threw with the cursor resting on the EOF token
C6_Witness ==
    /\ ~Filtered
    /\ op.name = "consume"
    /\ ret.kind = "error"
    /\ fetchedEOF
    /\ index = Len(tokens) - 1
    /\ Len(tokens) > 1

\* C9: getText() over the whole buffer returns the input text, for tokens
\* that the lexer emitted for consecutive segments covering the input.
C9_RoundTrip ==
    (op.name = "getText" /\ op.arg = <<>>)
      => (ret.kind = "text" /\ ret.txt = data)

\* every token the source will hand out, with the index the buffer gives it
FullTokens ==
    [i \in 1..Len(tokenSource) |-> [tokenSource[i] EXCEPT !.tokenIndex = i - 1]]

\* the buffer positions from `from` on that hold a token of channel c
OnChannelFrom(c, from) ==
    {p \in from..(Len(tokenSource) - 1) : FullTokens[p + 1].channel = c}

Kth(S, k) == CHOOSE p \in S : Cardinality({q \in S : q < p}) = k - 1

\* C10: on a CommonTokenStream with an initialized cursor, LT(k) for k >= 1
\* is the k-th token of the configured channel at or after the cursor when
\* there is one, and LT never returns a token of another channel.
C10_FilteredLT ==
    (Filtered /\ op.name = "LT" /\ op.arg >= 1)
      => /\ ret.kind = "token"
         /\ ret.tok.obj = "token" => ret.tok.channel = streamChannel
         /\ (index >= 0 /\ Cardinality(OnChannelFrom(streamChannel, index)) >= op.arg)
              => ret.tok = FullTokens[Kth(OnChannelFrom(streamChannel, index), op.arg) + 1]

\* LT(2) at A(default) #(hidden) B(default) skipped the hidden token
C10_Witness ==
    /\ streamChannel = DEFAULT_CHANNEL
    /\ op.name = "LT"
    /\ op.arg = 2
    /\ index = 0
    /\ Len(tokens) >= 3
    /\ tokens[2].channel = HIDDEN_CHANNEL
    /\ ret.tok = tokens[3]
    /\ ret.tok.type # TokenEOF

\* C11: on a CommonTokenStream, after every consume() and every seek(i)
\* the cursor rests on a resident token that is on the configured channel or
\* is the EOF token; it is never left at -1 or on an off-channel token.
C11_CursorOnChannel ==
    (Filtered /\ op.name \in {"seek", "consume"})
      => /\ index >= 0
         /\ index < Len(tokens)
         /\ \/ tokens[index + 1].channel = streamChannel
            \/ tokens[index + 1].type = TokenEOF

(* ------------------------- Set (hash-consing) -------------------------- *)
\* The objects put into a Set: distinct instances (id) that may be equal
\* (val).  equalsFunction compares val, hashFunction is a function of val
\* under which different values can share a bucket.
Objects == [id : 1..MaxId, val : 0..MaxVal]
equalsFunction(a, b) == a.val = b.val
hashFunction(a) == a.val % 2

\* every stored entry of Set.data
Entries(D) == UNION {{D[k][i] : i \in 1..Len(D[k])} : k \in DOMAIN D}

\* Set.length: the sum of the bucket lengths
SetLength(D) == Cardinality(UNION {{<<k, i>> : i \in 1..Len(D[k])} : k \in DOMAIN D})

\* the first entry of bucket values that equals value, 0 when there is none
FirstEqual(value, values) ==
    LET hits == {i \in 1..Len(values) : equalsFunction(value, values[i])}
    IN IF hits = {} THEN 0 ELSE CHOOSE i \in hits : \A j \in hits : i <= j

\* add that pushes without looking for an equal entry
SetAddOp_AlwaysPush(D, value) ==
    LET key == hashFunction(value)
    IN IF key \in DOMAIN D
       THEN [data |-> [D EXCEPT ![key] = Append(D[key], value)], ret |-> value]
       ELSE [data |-> [k \in DOMAIN D \cup {key} |-> IF k = key THEN <<value>> ELSE D[k]],
             ret |-> value]

\* Set.add(value)
SetAddOp(D, value) ==
    LET key == hashFunction(value)
    IN IF key \in DOMAIN D
       THEN LET i == FirstEqual(value, D[key])
            IN IF i > 0 THEN [data |-> D, ret |-> D[key][i]]
               ELSE [data |-> [D EXCEPT ![key] = Append(D[key], value)], ret |-> value]
       ELSE [data |-> [k \in DOMAIN D \cup {key} |-> IF k = key THEN <<value>> ELSE D[k]],
             ret |-> value]

\* Set.get(value): the stored entry equal to value, or null
SetGetOp(D, value) ==
    LET key == hashFunction(value)
    IN IF key \in DOMAIN D /\ FirstEqual(value, D[key]) > 0
       THEN D[key][FirstEqual(value, D[key])]
       ELSE NullObj

SetAdd ==
    \E v \in Objects :
        /\ op' = Op("add", v)
        /\ setData' = SetAddOp(setData, v).data
        /\ ret' = RetObj(SetAddOp(setData, v).ret)
        /\ UNCHANGED <<lexVars, strVars, tok, extraVars>>

SetGet ==
    \E v \in Objects :
        /\ op' = Op("get", v)
        /\ ret' = RetObj(SetGetOp(setData, v))
        /\ UNCHANGED <<lexVars, strVars, utilVars>>

SetGetLength ==
    /\ op' = Op("length", NoArg)
    /\ ret' = RetValue(SetLength(setData))
    /\ UNCHANGED <<lexVars, strVars, utilVars>>

\* a stream that is not in use
StreamIdle == StreamAtStart /\ streamChannel = Undefined /\ tokenSource = <<>>

InitSet == LexerAtRest(<<>>) /\ StreamIdle

NextSet == SetAdd \/ SetGet \/ SetGetLength

SpecSet == InitSet /\ [][NextSet]_vars

\* C12: add(v) returns the entry already stored that equals v, and inserts
\* nothing, when there is one; otherwise it inserts v and returns v; so no
\* two stored entries are ever equal.
C12_Canonical ==
    /\ [](\A k \in DOMAIN setData : \A i, j \in 1..Len(setData[k]) :
             equalsFunction(setData[k][i], setData[k][j]) => i = j)
    /\ [](\A a, b \in Entries(setData) : equalsFunction(a, b) => a = b)
    /\ [][op'.name = "add"
            => LET v == op'.arg
                   eq == {e \in Entries(setData) : equalsFunction(v, e)}
               IN IF eq # {}
                  THEN /\ ret'.obj \in eq
                       /\ setData' = setData
                       /\ SetLength(setData') = SetLength(setData)
                  ELSE /\ ret' = RetObj(v)
                       /\ SetLength(setData') = SetLength(setData) + 1
                       /\ Entries(setData') = Entries(setData) \cup {v}]_vars

\* an add of a second instance equal to a stored one returned the stored one
C12_Witness ==
    /\ op.name = "add"
    /\ ret.kind = "object"
    /\ ret.obj.id # op.arg.id
    /\ ret.obj.val = op.arg.val
    /\ ret.obj \in Entries(setData)
    /\ op.arg \notin Entries(setData)
    /\ SetLength(setData) = 3

(* ------------------- InputStream as a process of its own --------------- *)
CursorLA ==
    \E k \in (0 - MaxK)..MaxK :
        /\ op' = Op("LA", k)
        /\ ret' = RetValue(InputLA(data, inIndex, k))
        /\ UNCHANGED <<lexVars, strVars, utilVars>>

CursorConsume ==
    /\ op' = Op("consume", NoArg)
    /\ inIndex' = InputConsume(data, inIndex).index
    /\ ret' = IF InputConsume(data, inIndex).threw
              THEN RetError("cannot consume EOF") ELSE RetNone
    /\ UNCHANGED <<data, line, column, token, tokenStartCharIndex,
                   tokenStartLine, tokenStartColumn, hitEOF, channel, modeStack,
                   mode, text, type, pc, entryHitEOF, lastMatch, eofReturns,
                   snaps, strVars, utilVars>>

CursorSeek ==
    \E i \in (0 - MaxBack)..(MaxInput + 1) :
        /\ op' = Op("seek", i)
        /\ inIndex' = InputSeek(data, inIndex, i)
        /\ ret' = RetNone
        /\ UNCHANGED <<data, line, column, token, tokenStartCharIndex,
                       tokenStartLine, tokenStartColumn, hitEOF, channel,
                       modeStack, mode, text, type, pc, entryHitEOF, lastMatch,
                       eofReturns, snaps, strVars, utilVars>>

\* InputStream.reset(): this._index = 0
CursorReset ==
    /\ op' = Op("reset", NoArg)
    /\ inIndex' = 0
    /\ ret' = RetNone
    /\ UNCHANGED <<data, line, column, token, tokenStartCharIndex,
                   tokenStartLine, tokenStartColumn, hitEOF, channel, modeStack,
                   mode, text, type, pc, entryHitEOF, lastMatch, eofReturns,
                   snaps, strVars, utilVars>>

NextInput == CursorLA \/ CursorConsume \/ CursorSeek \/ CursorReset

SpecInput == InitLexer /\ [][NextInput]_vars

\* the symbol at position pos, the EOF sentinel outside [0, size)
SymbolAt(d, pos) == IF pos < 0 \/ pos >= Len(d) THEN TokenEOF ELSE d[pos + 1]

\* C13: LA(k) never raises and never moves the cursor; LA(0) is 0, which is
\* not the EOF sentinel; LA(k) is data[index+k-1] for k > 0 and data[index+k]
\* for k < 0, and the EOF sentinel when that position is outside [0, size).
C13_Lookahead ==
    [][op'.name = "LA"
         => /\ ret'.kind = "value"
            /\ inIndex' = inIndex
            /\ data' = data
            /\ ret'.val = (IF op'.arg = 0 THEN 0
                           ELSE IF op'.arg > 0
                                THEN SymbolAt(data, inIndex + op'.arg - 1)
                                ELSE SymbolAt(data, inIndex + op'.arg))
            /\ (op'.arg = 0 => ret'.val # TokenEOF)]_vars

\* LA(-1) after a consume gave the symbol just consumed, with EOF ahead
C13_Witness ==
    /\ op.name = "LA"
    /\ op.arg = -1
    /\ inIndex = Len(data)
    /\ inIndex > 0
    /\ ret.val = data[inIndex]
    /\ InputLA(data, inIndex, 1) = TokenEOF

\* C14: the cursor always satisfies 0 <= index <= size, and seek(i) sets
\* index to i clamped to [0, size] and changes nothing else.
C14_IndexInRange ==
    /\ [](0 <= inIndex /\ inIndex <= Len(data))
    /\ [][op'.name = "seek"
            => /\ inIndex' = (IF op'.arg < 0 THEN 0 ELSE Min(op'.arg, Len(data)))
               /\ data' = data]_vars

\* C15: consume() advances index by exactly one when index < size; at
\* index = size it throws and leaves index unchanged.
C15_Consume ==
    [][op'.name = "consume"
         => IF inIndex < Len(data)
            THEN ret'.kind # "error" /\ inIndex' = inIndex + 1
            ELSE ret'.kind = "error" /\ inIndex' = inIndex]_vars

\* consume() threw at the end of a non-empty input
C15_Witness ==
    /\ op.name = "consume"
    /\ ret.kind = "error"
    /\ inIndex = Len(data)
    /\ Len(data) > 0

(* ------------------ properties: base-stream lookahead ------------------ *)
\* C16: on the base stream, LT(k) for k > 0 returns the token at buffer
\* position cursor+k-1, fetched if it was not resident, and the last (EOF)
\* token when cursor+k-1 lies beyond the end of the token sequence.
C16_BaseLT ==
    (~Filtered /\ op.name = "LT" /\ op.arg > 0)
      => LET i == index + op.arg - 1
             p == Min(i, Len(tokenSource) - 1)
         IN /\ index >= 0
            /\ ret.kind = "token"
            /\ Len(tokens) > p
            /\ ret.tok = FullTokens[p + 1]
            /\ ret.tok = tokens[p + 1]
            /\ (i > p => ret.tok.type = TokenEOF)

\* LT(k) reached beyond the EOF token and returned it
C16_Witness ==
    /\ ~Filtered
    /\ op.name = "LT"
    /\ index >= 1
    /\ index + op.arg - 1 >= Len(tokens)
    /\ ret.kind = "token"
    /\ ret.tok.type = TokenEOF
    /\ ret.tok = tokens[Len(tokens)]

\* C17: on the base stream, LT(k) for k <= 0 returns what LB(-k) returns:
\* the token -k positions behind the cursor, or null when that position is
\* negative.
C17_LTBackIsLB ==
    (~Filtered /\ op.name = "LT" /\ op.arg <= 0)
      => ret = BaseLB(StreamState, 0 - op.arg).r

(* --------------------- tokens and the token factory -------------------- *)
\* new CommonToken(source, type, channel, start, stop); _text is the field
\* of Token the text getter reads first, null unless it was written
TokenNew ==
    \E src \in {"none", "lexer"}, start \in -1..MaxInput, stop \in -1..MaxInput,
       tx \in {NullText, Str(<<98>>)} :
        /\ op' = Op("new CommonToken", NoArg)
        /\ tok' = [CommonTokenCtor(src, 1, DEFAULT_CHANNEL, start, stop)
                     EXCEPT !.text = tx]
        /\ ret' = RetToken(tok')
        /\ UNCHANGED <<lexVars, strVars, setData, extraVars>>

\* factory.create(...): tok is the token it returned, null when it threw
TokenCreate ==
    \E a \in [copyText : BOOLEAN, source : {"none", "lexer"},
              type : {1, TokenEOF}, text : {NullText, Str(<<98>>)},
              channel : Channels, start : 0..MaxInput, stop : -1..MaxInput,
              line : {1}, column : {0}] :
        LET c == FactoryCreate(a.copyText, a.source, a.type, a.text, a.channel,
                               a.start, a.stop, a.line, a.column)
        IN /\ op' = Op("create", a)
           /\ tok' = c.tok
           /\ ret' = IF c.threw THEN RetError("TypeError") ELSE RetToken(c.tok)
           /\ UNCHANGED <<lexVars, strVars, setData, extraVars>>

\* token.text read on the token held
TokenGetText ==
    /\ tok.obj = "token"
    /\ op' = Op("text", NoArg)
    /\ ret' = RetStr(TokenText(tok, data))
    /\ UNCHANGED <<lexVars, strVars, utilVars>>

InitToken == (\E d \in Inputs : LexerAtRest(d)) /\ StreamIdle

NextTokenApi == TokenNew \/ TokenCreate \/ TokenGetText

SpecToken == InitToken /\ [][NextTokenApi]_vars

\* C18: create(source, type, text, channel, start, stop, line, column)
\* returns a token whose type, channel, start, stop, line and column are the
\* arguments, whose text is the text argument when that is not null, and
\* whose tokenIndex is -1.
C18_FactoryCreate ==
    op.name = "create"
      => /\ ret.kind = "token"
         /\ ret.tok.type = op.arg.type
         /\ ret.tok.channel = op.arg.channel
         /\ ret.tok.start = op.arg.start
         /\ ret.tok.stop = op.arg.stop
         /\ ret.tok.line = op.arg.line
         /\ ret.tok.column = op.arg.column
         /\ ret.tok.tokenIndex = -1
         /\ (~op.arg.text.nul => ret.tok.text = op.arg.text)

LeftBoundary(tk, i) ==
    LET ps == {p \in 0..(i - 1) : tk[p + 1].channel = DEFAULT_CHANNEL}
    IN IF ps = {} THEN -1 ELSE CHOOSE p \in ps : \A q \in ps : q <= p

\* the tokens at positions from..to that channel ch selects
Selected(tk, from, to, ch) ==
    LET Picks(t) == IF ch = -1 THEN t.channel # DEFAULT_CHANNEL ELSE t.channel = ch
    IN SelectSeq(SubSeq(tk, from + 1, to + 1), Picks)

\* C20: getHiddenTokensToLeft(tokenIndex, channel), for tokenIndex inside
\* the buffer, returns the tokens strictly between the nearest
\* default-channel token to the left (or the buffer start) and tokenIndex
\* that match channel (every non-default token for the wildcard), and null
\* only when there is none.
C20_HiddenToLeft ==
    (op.name = "getHiddenTokensToLeft" /\ op.arg[1] < Len(tokens))
      => LET ch == IF op.arg[2] = Null THEN -1 ELSE op.arg[2]
             want == Selected(tokens, LeftBoundary(tokens, op.arg[1]) + 1,
                              op.arg[1] - 1, ch)
         IN ret = (IF want = <<>> THEN RetNull ELSE RetToks(want))

\* the nearest default-channel position right of position i in the token
\* sequence of the source (its EOF token is on the default channel)
RightBoundary(i) ==
    LET ps == {p \in (i + 1)..(Len(tokenSource) - 1) :
                  FullTokens[p + 1].channel = DEFAULT_CHANNEL}
    IN IF ps = {} THEN Len(tokenSource) ELSE CHOOSE p \in ps : \A q \in ps : p <= q

\* C21: the hidden-tokens-to-right query, for tokenIndex inside the buffer
\* and on any stream, returns the tokens strictly between tokenIndex and the
\* nearest default-channel token to its right that match channel (every
\* non-default token for the wildcard), and null when there is none.
C21_HiddenToRight ==
    (op.name = "getHiddenTokensToRight" /\ op.arg[1] < Len(tokens))
      => LET ch == IF op.arg[2] = Null THEN -1 ELSE op.arg[2]
             want == Selected(FullTokens, op.arg[1] + 1,
                              RightBoundary(op.arg[1]) - 1, ch)
         IN ret = (IF want = <<>> THEN RetNull ELSE RetToks(want))

(* ----------------------- properties: the buffer ------------------------ *)
\* C22: every resident token has tokenIndex equal to its buffer position,
\* and no stream operation changes the tokenIndex of a resident token.
C22_TokenIndex ==
    /\ [](\A i \in 1..Len(tokens) : tokens[i].tokenIndex = i - 1)
    /\ [][\A i \in 1..Len(tokens) :
             i <= Len(tokens') => tokens'[i].tokenIndex = tokens[i].tokenIndex]_vars

\* three tokens, appended one consume() at a time, sit at their positions
C22_Witness ==
    /\ op.name = "consume"
    /\ index = 2
    /\ Len(tokens) = 3
    /\ srcPos = 3
    /\ tokens[3].tokenIndex = 2
    /\ tokens[1].tokenIndex = 0

\* C23: the buffer before a stream operation is a prefix of the buffer after
\* it: no operation removes, replaces or reorders resident tokens.
C23_AppendOnly ==
    [][/\ Len(tokens) <= Len(tokens')
       /\ SubSeq(tokens', 1, Len(tokens)) = tokens
       /\ buffer' = "array"]_vars

\* C24: sync(i), i >= 0, returns true exactly when position i holds a
\* token after the call, false only when the EOF token is resident and i
\* lies beyond it, and fetches no more tokens than position i needs.
C24_Sync ==
    [][op'.name = "sync"
         => /\ ret'.kind = "value"
            /\ (ret'.val = 1) <=> (Len(tokens') > op'.arg)
            /\ (ret'.val = 0) <=> (fetchedEOF' /\ op'.arg >= Len(tokens'))
            /\ Len(tokens') <= (IF Len(tokens) > op'.arg + 1
                                THEN Len(tokens) ELSE op'.arg + 1)
            /\ srcPos' = srcPos + (Len(tokens') - Len(tokens))
            /\ SubSeq(tokens', 1, Len(tokens)) = tokens]_vars

\* sync returned false for a position beyond the resident EOF token
C24_Witness ==
    /\ op.name = "sync"
    /\ ret = RetValue(0)
    /\ fetchedEOF
    /\ op.arg >= Len(tokens)
    /\ Len(tokens) >= 2
    /\ index = -1

\* C29: on the base stream, whenever the EOF token is resident the cursor
\* is at most the index of the EOF token.
C29_CursorBound ==
    (~Filtered /\ fetchedEOF) => index <= Len(tokens) - 1

\* C29 as the code has it: on the base stream seek(i) sets the cursor to
\* exactly i, also beyond the resident EOF token, while consume() only ever
\* moves the cursor to a resident position, so never past the EOF token.
C29_SeekExactConsumeBounded ==
    [][~Filtered
         => /\ (op'.name = "seek" => index' = op'.arg)
            /\ (op'.name = "consume" /\ index' # index)
                 => (index' >= 0 /\ index' <= Len(tokens') - 1)]_vars

\* a seek on the base stream has left the cursor beyond the resident EOF token
C29_Witness ==
    /\ ~Filtered
    /\ op.name = "seek"
    /\ fetchedEOF
    /\ index > Len(tokens) - 1

\* C30: on a CommonTokenStream, LT(k) with k larger than the number of
\* on-channel tokens at or after the cursor returns the EOF token, never
\* undefined and never a token before the cursor.
C30_LTStopsAtEOF ==
    (/\ Filtered
     /\ op.name = "LT"
     /\ op.arg >= 1
     /\ index >= 0
     /\ Cardinality(OnChannelFrom(streamChannel, index)) < op.arg)
      => /\ ret.kind = "token"
         /\ ret.tok.obj = "token"
         /\ ret.tok.type = TokenEOF

\* C25: a MORE result makes nextToken() invoke the matcher again in the same
\* call, with the token start kept and no token created, and nextToken()
\* never returns a token whose type is MORE.
C25_More ==
    /\ [](ret.kind = "token" => ret.tok.type # MORE)
    /\ [][(pc = "match" /\ type' = MORE)
            => /\ pc' = "match"
               /\ ret' = RetNone
               /\ token' = token
               /\ tokenStartCharIndex' = tokenStartCharIndex
               /\ tokenStartLine' = tokenStartLine
               /\ tokenStartColumn' = tokenStartColumn]_vars

\* C26: a SKIP result produces no token: nextToken() returns the EOF token
\* when the end of input was hit and otherwise goes back to the matcher with
\* the token start snapshotted at the cursor reached after the skipped
\* match; nextToken() never returns a token whose type is SKIP.
C26_Skip ==
    /\ [](ret.kind = "token" => ret.tok.type # SKIP)
    /\ [][(pc = "match" /\ type' = SKIP)
            => IF hitEOF'
               THEN /\ pc' = "idle"
                    /\ ret'.kind = "token"
                    /\ ret'.tok.type = TokenEOF
               ELSE /\ pc' = "match"
                    /\ ret' = RetNone
                    /\ token' = NullToken
                    /\ tokenStartCharIndex' = inIndex'
                    /\ tokenStartLine' = line'
                    /\ tokenStartColumn' = column']_vars

\* a rule that consumed symbols was skipped and the matcher is about to be
\* invoked again from the new token start
C26_Witness ==
    /\ pc = "match"
    /\ type = SKIP
    /\ lastMatch.kind = "ret"
    /\ lastMatch.at > 0
    /\ ~hitEOF
    /\ tokenStartCharIndex = inIndex
    /\ inIndex = lastMatch.at

\* C27: for every RecognitionException the matcher raises while the cursor
\* is not at the end of the input, recovery advances the cursor by exactly
\* one symbol and scanning goes on.
C27_RecoveryAdvances ==
    [][(/\ pc = "match"
        /\ lastMatch'.kind \in {"lnva", "re"}
        /\ ~AtEOF(data, lastMatch'.at))
         => /\ ret'.kind # "error"
            /\ inIndex' = lastMatch'.at + 1]_vars

\* C28: a token made by emit() spans from the token start to the symbol
\* before the cursor, on the lexer's channel, at the line and column of the
\* token start; the token made by emitEOF() has type EOF, the default
\* channel and the empty span at the cursor.
C28_EmittedSpan ==
    (pc = "idle" /\ op.name = "nextToken" /\ ret.kind = "token")
      => IF lastMatch.kind = "ret" /\ type = MORE
         THEN /\ ret.tok.start = tokenStartCharIndex
              /\ ret.tok.stop = inIndex - 1
              /\ ret.tok.channel = channel
              /\ ret.tok.line = tokenStartLine
              /\ ret.tok.column = tokenStartColumn
         ELSE /\ ret.tok.type = TokenEOF
              /\ ret.tok.channel = DEFAULT_CHANNEL
              /\ ret.tok.start = inIndex
              /\ ret.tok.stop = inIndex - 1

\* the resident positions strictly before `before` holding a token of channel c
OnChannelBefore(c, before) ==
    {p \in 0..(before - 1) : p < Len(tokens) /\ tokens[p + 1].channel = c}

KthBack(S, k) == CHOOSE p \in S : Cardinality({q \in S : q > p}) = k - 1

\* C31: on a CommonTokenStream, LB(k) for k >= 1 is the k-th token of the
\* configured channel strictly before the cursor, or null when there are
\* fewer than k; LT(-k) returns the same, and LB(0) and LT(0) return null.
C31_FilteredLB ==
    (Filtered /\ (op.name = "LB" \/ (op.name = "LT" /\ op.arg <= 0)))
      => LET k == IF op.arg < 0 THEN 0 - op.arg ELSE op.arg
             before == OnChannelBefore(streamChannel, index)
         IN ret = IF k >= 1 /\ Cardinality(before) >= k
                  THEN RetToken(tokens[KthBack(before, k) + 1])
                  ELSE RetToken(NullToken)

\* LB(1) with the cursor at A # B, on B: the hidden token # was skipped
C31_Witness ==
    /\ Filtered
    /\ op = Op("LB", 1)
    /\ index = 2
    /\ tokens[2].channel # streamChannel
    /\ ret = RetToken(tokens[1])

\* the text of the resident non-EOF tokens at positions lo..hi, in buffer order
RECURSIVE TextOfRange(_, _)
TextOfRange(lo, hi) ==
    IF lo > hi THEN <<>>
    ELSE LET t == tokens[lo + 1]
             tx == TokenText(t, data)
         IN (IF t.type = TokenEOF THEN <<>>
             ELSE IF tx.nul THEN NullChars ELSE tx.str)
            \o TextOfRange(lo + 1, hi)

\* C32: getText(interval) is the concatenation, in buffer order, of the text
\* of every resident non-EOF token with index in [start, stop], stop clamped
\* to the last index, whatever the channels and the cursor; an absent
\* interval is the whole buffer.
C32_GetText ==
    op.name = "getText"
      => LET lo == IF op.arg = <<>> THEN 0 ELSE op.arg[1]
             hi0 == IF op.arg = <<>> THEN Len(tokens) - 1 ELSE op.arg[2]
             hi == Min(hi0, Len(tokens) - 1)
         IN ret = RetText(TextOfRange(lo, hi))

\* getText() on a channel-filtered stream whose buffer holds a token off the
\* channel: the text returned has that token's text in it
C32_Witness ==
    /\ Filtered
    /\ op = Op("getText", <<>>)
    /\ Len(tokens) >= 3
    /\ tokens[1].channel = streamChannel
    /\ tokens[2].channel # streamChannel
    /\ tokens[2].type # TokenEOF
    /\ ret.kind = "text"
    /\ Len(ret.txt) > Len(TextOfRange(0, 0))

\* C33: reset() puts the character cursor at 0 and every lexer field at its
\* initial value (default mode, empty mode stack, hitEOF false, no token,
\* INVALID type, default channel, no text override, line 1, column 0), so
\* every field nextToken() reads is what a lexer just constructed on the
\* same input has, and the tokens produced from there on are the same.
C33_Reset ==
    [][op'.name = "reset"
         => /\ data' = data
            /\ inIndex' = 0
            /\ line' = 1
            /\ column' = 0
            /\ mode' = DEFAULT_MODE
            /\ modeStack' = <<>>
            /\ hitEOF' = FALSE
            /\ token' = NullToken
            /\ type' = INVALID_TYPE
            /\ channel' = DEFAULT_CHANNEL
            /\ text' = NullText
            /\ tokenStartCharIndex' = -1
            /\ tokenStartLine' = -1
            /\ tokenStartColumn' = -1
            /\ pc' = "idle"]_vars

\* reset() was called on a lexer over a nonempty input
C33_Witness ==
    /\ op = Op("reset", NoArg)
    /\ Len(data) > 0
    /\ type = INVALID_TYPE
    /\ inIndex = 0
    /\ ~hitEOF

\* C34: an error of the matcher that is no RecognitionException leaves
\* nextToken() as that error: no listener is notified, recover() is not
\* called and the cursor stays where the matcher left it.
C34_OtherErrorPropagates ==
    [][(pc = "match" /\ lastMatch'.kind = "err")
         => /\ ~lastMatch'.notified
            /\ ret' = RetError("matcher error")
            /\ pc' = "idle"
            /\ inIndex' = lastMatch'.at
            /\ hitEOF' = hitEOF
            /\ token' = token]_vars

\* nextToken() threw the matcher's error with symbols left in the input
C34_Witness ==
    /\ pc = "idle"
    /\ op.name = "nextToken"
    /\ lastMatch.kind = "err"
    /\ ret = RetError("matcher error")
    /\ ~AtEOF(data, inIndex)
    /\ inIndex = lastMatch.at

(* ---------------- callers of nextToken(): getAllTokens, fill ------------ *)
\* a call of nextToken() made inside another operation: as NextToken, with
\* op left to the caller
CallNextToken ==
    /\ entryHitEOF' = hitEOF
    /\ lastMatch' = NoMatch
    /\ OuterHead(inIndex, column, hitEOF, channel, text)
    /\ UNCHANGED <<data, inIndex, line, column, hitEOF, modeStack, mode, type, snaps>>

\* the loop test of getAllTokens(), token.isPrototypeOf !== Token.EOF:
\* isPrototypeOf is the method every object inherits, never the number -1
LoopGoesOn(t) == TRUE

\* getAllTokens() or fill() holds a token nextToken() has just returned
Running ==
    /\ pc = "idle"
    /\ op.name \in {"getAllTokens", "fill"}
    /\ ret.kind = "token"

\* getAllTokens() is called: tokens = [], then the first nextToken()
GetAllTokens ==
    /\ pc = "idle"
    /\ ~Running
    /\ op' = Op("getAllTokens", NoArg)
    /\ allTokens' = <<>>
    /\ CallNextToken
    /\ UNCHANGED <<strVars, tok, setData, bitVars, mapData>>

\* one pass of the while loop of getAllTokens(): the test, then push and the
\* next nextToken(), or the return of the array.  Of the array the first
\* MaxAll elements are kept.
AllLoop ==
    /\ Running
    /\ op.name = "getAllTokens"
    /\ IF LoopGoesOn(ret.tok)
       THEN /\ allTokens' = IF Len(allTokens) < MaxAll
                            THEN Append(allTokens, ret.tok) ELSE allTokens
            /\ CallNextToken
       ELSE /\ ret' = RetToks(allTokens)
            /\ UNCHANGED <<lexVars, allTokens>>
    /\ UNCHANGED <<op, strVars, tok, setData, bitVars, mapData>>

\* fill() is called on a new base stream over the lexer: lazyInit() and the
\* fetch loop come to one tokenSource.nextToken() after another
FillStart ==
    /\ pc = "idle"
    /\ ~Running
    /\ tokens = <<>> /\ index = -1 /\ ~fetchedEOF
    /\ op' = Op("fill", NoArg)
    /\ CallNextToken
    /\ UNCHANGED <<strVars, utilVars>>

\* fetch, for the token nextToken() returned: tokenIndex is set, the token
\* is pushed, and at the EOF token fetchedEOF is set and fill() returns;
\* setup() leaves the cursor of the base stream at 0
FillStep ==
    /\ Running
    /\ op.name = "fill"
    /\ tokens' = Append(tokens, [ret.tok EXCEPT !.tokenIndex = Len(tokens)])
    /\ index' = 0
    /\ srcPos' = srcPos + 1
    /\ IF ret.tok.type = TokenEOF
       THEN /\ fetchedEOF' = TRUE
            /\ ret' = RetNone
            /\ UNCHANGED lexVars
       ELSE /\ fetchedEOF' = FALSE
            /\ CallNextToken
    /\ UNCHANGED <<op, streamChannel, tokenSource, buffer, utilVars>>

NextDrivers == GetAllTokens \/ AllLoop \/ FillStart \/ FillStep \/ Match

\* every call that can go on does go on
SpecDrivers == InitLexer /\ [][NextDrivers]_vars /\ WF_vars(NextDrivers)

\* C35: getAllTokens() collects the tokens before the EOF token, never the
\* EOF token, and, when no call throws, returns the array.
C35_GetAllTokens ==
    /\ [](op.name = "getAllTokens"
            => \A i \in 1..Len(allTokens) : allTokens[i].type # TokenEOF)
    /\ ([](ret.kind # "error"))
         => ((op.name = "getAllTokens")
               ~> (op.name = "getAllTokens" /\ pc = "idle" /\ ret.kind = "tokens"))

\* C36: when no call throws, fill() returns, with fetchedEOF set and the EOF
\* token the last element of the buffer.
C36_FillTerminates ==
    ([](ret.kind # "error"))
      => ((op.name = "fill")
            ~> (/\ op.name = "fill"
                /\ pc = "idle"
                /\ ret = RetNone
                /\ fetchedEOF
                /\ Len(tokens) > 0
                /\ tokens[Len(tokens)].type = TokenEOF))

(* -------------------------------- BitSet ------------------------------- *)
\* The keys of BitSet.data other than array indexes: data[true] and
\* data[undefined] are the properties "true" and "undefined" of the array
TrueKey == -2
UndefinedKey == Undefined

Bits == 0..MaxBit

\* add(value): this.data[value] = true; the array grows to hold an index
BitAdd(b, value) ==
    [keys |-> b.keys \cup {value},
     length |-> IF value >= 0 /\ value + 1 > b.length THEN value + 1 ELSE b.length]

\* remove(value): delete this.data[value], which leaves the length
BitRemove(b, value) == [b EXCEPT !.keys = b.keys \ {value}]

\* contains(value): this.data[value] === true
BitContains(b, value) == value \in b.keys

\* or(set): for (let alt of set.data) this.add(alt).  for-of runs over the
\* elements at the indexes 0..length-1 of set.data, true at a member and
\* undefined at a hole, and each is used as the key to add
RECURSIVE BitOrLoop(_, _, _)
BitOrLoop(b, set, i) ==
    IF i >= set.length THEN b
    ELSE BitOrLoop(BitAdd(b, IF i \in set.keys THEN TrueKey ELSE UndefinedKey),
                   set, i + 1)
BitOr(b, set) == BitOrLoop(b, set, 0)

\* new Hash(): count = 0, hash = 0
NewHash == [count |-> 0, hash |-> 0]

\* hash.update(array): Array.isArray(value) holds and this.update.apply(value)
\* runs update with the array as `this` and no argument, so nothing is mixed
\* into the hash
HashUpdateArray(h, keys) == h

\* hash.finish() on count = 0, hash = 0: every xor, shift and product is 0
HashFinish(h) == CASE h = NewHash -> 0

\* hashCode(): a new Hash, update(this.values()), finish()
BitHashCode(b) == HashFinish(HashUpdateArray(NewHash, b.keys))

\* equals(other) for a BitSet other: this.hashCode() === other.hashCode()
BitEquals(b, other) == BitHashCode(b) = BitHashCode(other)

BoolValue(x) == IF x THEN RetValue(1) ELSE RetValue(0)

BitsAdd ==
    \E v \in Bits :
        \/ /\ op' = Op("a.add", v)
           /\ bitsA' = BitAdd(bitsA, v)
           /\ UNCHANGED bitsB
        \/ /\ op' = Op("b.add", v)
           /\ bitsB' = BitAdd(bitsB, v)
           /\ UNCHANGED bitsA
    /\ ret' = RetNone
    /\ UNCHANGED <<lexVars, strVars, tok, setData, allTokens, mapData>>

BitsRemove ==
    \E v \in Bits :
        \/ /\ op' = Op("a.remove", v)
           /\ bitsA' = BitRemove(bitsA, v)
           /\ UNCHANGED bitsB
        \/ /\ op' = Op("b.remove", v)
           /\ bitsB' = BitRemove(bitsB, v)
           /\ UNCHANGED bitsA
    /\ ret' = RetNone
    /\ UNCHANGED <<lexVars, strVars, tok, setData, allTokens, mapData>>

\* a.or(b)
BitsOr ==
    /\ op' = Op("or", NoArg)
    /\ bitsA' = BitOr(bitsA, bitsB)
    /\ ret' = RetNone
    /\ UNCHANGED <<lexVars, strVars, tok, setData, allTokens, bitsB, mapData>>

\* a.contains(v)
BitsContains ==
    \E v \in Bits :
        /\ op' = Op("contains", v)
        /\ ret' = BoolValue(BitContains(bitsA, v))
        /\ UNCHANGED <<lexVars, strVars, utilVars>>

\* a.equals(b)
BitsEquals ==
    /\ op' = Op("equals", NoArg)
    /\ ret' = BoolValue(BitEquals(bitsA, bitsB))
    /\ UNCHANGED <<lexVars, strVars, utilVars>>

NextBits == BitsAdd \/ BitsRemove \/ BitsOr \/ BitsContains \/ BitsEquals

SpecBits == InitSet /\ [][NextBits]_vars

\* the integers a BitSet contains
Members(b) == {x \in Bits : BitContains(b, x)}

\* C37: a.equals(b) is true when a and b contain the same members and false
\* when their members differ.
C37_EqualsByMembership ==
    op.name = "equals"
      => (ret = BoolValue(Members(bitsA) = Members(bitsB)))

\* C38: after a.or(b), a contains x exactly when a contained x before or b
\* contains x; b is unchanged and a gains no key that was in neither.
C38_OrIsUnion ==
    [][op'.name = "or"
         => /\ \A x \in Bits :
                 BitContains(bitsA', x) <=> (BitContains(bitsA, x) \/ BitContains(bitsB, x))
            /\ bitsB' = bitsB
            /\ bitsA'.keys \subseteq (bitsA.keys \cup bitsB.keys)]_vars

(* --------------------------- Map (hash-consing) ------------------------ *)
\* Keys are the objects of the Set section, with the same equalsFunction and
\* hashFunction; Map.data holds for every hash key an array of {key, value}.
MapValues == 1..MaxVal

\* the first entry of a bucket whose key equals key, 0 when there is none
FirstEqualKey(key, entries) ==
    FirstEqual(key, [i \in 1..Len(entries) |-> entries[i].key])

\* put(key, value): the value of an entry with an equal key is replaced
\* and the old value returned; otherwise {key, value} is stored and value
\* returned
MapPutOp(D, key, value) ==
    LET hashKey == hashFunction(key)
        entry == [key |-> key, value |-> value]
    IN IF hashKey \in DOMAIN D
       THEN LET i == FirstEqualKey(key, D[hashKey])
            IN IF i > 0
               THEN [data |-> [D EXCEPT ![hashKey][i].value = value],
                     ret |-> D[hashKey][i].value]
               ELSE [data |-> [D EXCEPT ![hashKey] = Append(D[hashKey], entry)],
                     ret |-> value]
       ELSE [data |-> [k \in DOMAIN D \cup {hashKey} |->
                         IF k = hashKey THEN <<entry>> ELSE D[k]],
             ret |-> value]

\* this.entries.length in containsKey: this.entries is the method entries(),
\* whose length is the number of its parameters
EntriesMethodLength == 0

\* containsKey(key): the loop over the bucket runs up to this.entries.length
MapContainsKeyOp(D, key) ==
    LET hashKey == hashFunction(key)
    IN /\ hashKey \in DOMAIN D
       /\ \E i \in 1..EntriesMethodLength :
            /\ i <= Len(D[hashKey])
            /\ equalsFunction(key, D[hashKey][i].key)

\* get(key): the value of the first entry of the bucket with an equal key,
\* or null
MapGetOp(D, key) ==
    LET hashKey == hashFunction(key)
    IN IF hashKey \in DOMAIN D /\ FirstEqualKey(key, D[hashKey]) > 0
       THEN D[hashKey][FirstEqualKey(key, D[hashKey])].value
       ELSE Null

MapPut ==
    \E k \in Objects, v \in MapValues :
        /\ op' = Op("put", <<k, v>>)
        /\ mapData' = MapPutOp(mapData, k, v).data
        /\ ret' = RetValue(MapPutOp(mapData, k, v).ret)
        /\ UNCHANGED <<lexVars, strVars, tok, setData, allTokens, bitVars>>

MapGet ==
    \E k \in Objects :
        /\ op' = Op("get", k)
        /\ ret' = RetValue(MapGetOp(mapData, k))
        /\ UNCHANGED <<lexVars, strVars, utilVars>>

MapContainsKey ==
    \E k \in Objects :
        /\ op' = Op("containsKey", k)
        /\ ret' = BoolValue(MapContainsKeyOp(mapData, k))
        /\ UNCHANGED <<lexVars, strVars, utilVars>>

NextMap == MapPut \/ MapGet \/ MapContainsKey

SpecMap == InitSet /\ [][NextMap]_vars

\* the value the finite map D stands for has at key k, null when it has none
Lookup(D, k) ==
    LET hits == {e \in Entries(D) : equalsFunction(k, e.key)}
    IN IF hits = {} THEN Null ELSE (CHOOSE e \in hits : TRUE).value

\* C39: the Map is a finite map under equalsFunction: no two stored entries
\* have equal keys; put(k, v) makes v the value at every key equal to k,
\* leaves the other keys alone and returns the old value when there was one;
\* get(k) returns the value at k or null; containsKey(k) is true exactly
\* when get(k) finds an entry.
C39_FiniteMap ==
    /\ [](\A h \in DOMAIN mapData : \A i, j \in 1..Len(mapData[h]) :
            equalsFunction(mapData[h][i].key, mapData[h][j].key) => i = j)
    /\ [](\A a, b \in Entries(mapData) : equalsFunction(a.key, b.key) => a = b)
    /\ [][op'.name = "put"
            => /\ Lookup(mapData', op'.arg[1]) = op'.arg[2]
               /\ \A k \in Objects :
                    ~equalsFunction(k, op'.arg[1])
                      => Lookup(mapData', k) = Lookup(mapData, k)
               /\ Lookup(mapData, op'.arg[1]) # Null
                    => ret' = RetValue(Lookup(mapData, op'.arg[1]))]_vars
    /\ [](op.name = "get" => ret = RetValue(Lookup(mapData, op.arg)))
    /\ [](op.name = "containsKey"
            => ret = BoolValue(Lookup(mapData, op.arg) # Null))

\* the operations that look at the stream without consuming
Queries == {"LA", "LT", "LB", "get", "getText",
            "getHiddenTokensToLeft", "getHiddenTokensToRight"}

\* C40: on a stream whose cursor is initialized, base or channel-filtered,
\* LA, LT, LB, get, getText and the hidden-token queries leave the cursor
\* where it was, for every argument, also when they fetch tokens.
C40_QueriesKeepCursor ==
    [][(index >= 0 /\ op'.name \in Queries) => index' = index]_vars

\* LT(3) with the cursor at 0 returned the third token, and the cursor is
\* still at 0
C40_Witness ==
    /\ op = Op("LT", 3)
    /\ index = 0
    /\ Len(tokens) >= 3
    /\ srcPos = Len(tokens)
    /\ ret = RetToken(tokens[3])

====
